---- MODULE Spec2Model ----
(***************************************************************************)
(* MapService of ngx-mapbox-gl (lib/map/map.service.ts): the five          *)
(* pending-removal arrays, the flush (applyChanges) run from the           *)
(* NgZone.onMicrotaskEmpty subscription made in createMap, and the map     *)
(* life cycle (setup / first onStable / destroyMap).                       *)
(*                                                                         *)
(* The wrapped engine (mapbox-gl) is modelled by what the service can      *)
(* observe of it: which layer, source and image ids it holds and whether a *)
(* popup has a 'close' listener (marker.remove() and popup.remove() work   *)
(* on any handle).  A call for an id the engine does not hold either       *)
(* throws or is only reported through the engine's own 'error' event; both *)
(* outcomes are explored (engineThrows).  Likewise the observable library  *)
(* either keeps or drops a subscriber whose callback threw (drops).        *)
(***************************************************************************)
EXTENDS Integers, Sequences, FiniteSets, TLC

\* ---------------------------------------------------------------- bounds
\* Most entries that callers enqueue (all five arrays together) between flushes.
MaxPending == 3
MaxPendingOps == 1

LayerIds  == {"l1", "l2"}
SourceIds == {"s1"}
Markers   == {"m1"}
Popups    == {"p1", "p2"}
ImageIds  == {"i1"}

\* A removal request made by application code: which remove* method, which argument.
\* Engine events of the map, and of a layer, that the service republishes.
MapEventKinds == {"load", "resize", "click"}
LayerEventOrder == << "click", "mouseEnter", "mouseLeave", "mouseMove" >>
LayerEventKinds == { LayerEventOrder[i] : i \in DOMAIN LayerEventOrder }
\* Which emitters of a layer are observed when it is added (the cases kept).
LayerObserverChoices == { {}, {"mouseEnter"}, {"click", "mouseMove"} }

\* An AsyncSubject: next keeps the value, complete emits the kept value once.
NewSubject == [hasValue |-> FALSE, isStopped |-> FALSE, emitted |-> 0]

\* An optional parameter that was left out (numbers are naturals here).
Undefined == -1
\* The zoom range setLayerZoomRange falls back to.
DefaultMinZoom == 0
DefaultMaxZoom == 20
\* Values the application passes for zoom, bearing and pitch, for the centre
\* (a position is an opaque number here, never 0) and for a zoom bound.
ZoomArgs == {Undefined, 0, 2}
AngleArgs == {Undefined, 0, 1}
CenterArgs == {Undefined, 9}
ZoomBoundArgs == {Undefined, 0, 2}
\* movingOptions: none, one carrying its own zoom, one carrying a duration;
\* the moving methods kept (easeTo is not).
MovingOptionsChoices == { [k \in {} |-> 0], [zoom |-> 1], [duration |-> 1] }
MovingMethods == {"map.jumpTo", "map.flyTo"}
CameraKeys == {"zoom", "center", "bearing", "pitch"}
\* The view of a new map.
DefaultCamera == [zoom |-> 0, center |-> 8, bearing |-> 0, pitch |-> 0]
NoCall == [op |-> "none"]

Request(kind, id) == [kind |-> kind, id |-> id]
NoHandler == Request("none", "none")
\* What an observer of a popup's close emitter may do when it is run: nothing
\* more, or one removal request.  Only popup p1 is ever created with an
\* observed close emitter (p2 stands for the popups created without one) and
\* its observer never asks for p1 itself (an observer
\* that re-requests the popup being removed keeps the loop of removePopups
\* from ending).
CloseHandlers ==
    { NoHandler, Request("layer", "l1"), Request("popup", "p2"), Request("image", "i1") }

\* One entry of the record of what the last handler did.
Ev(op, id) == [op |-> op, id |-> id]

VARIABLES
    mapInstance,        \* "none" (field unset) | "alive" | "removed"
    setupState,         \* "none" | "pending" (onStable.pipe(first()) subscribed) | "done"
    subscriptionClosed, \* this.subscription has been unsubscribed
    subChanges,         \* the onMicrotaskEmpty subscription: "none" | "active" |
                        \* "closed" (by this.subscription) | "dropped" (by the
                        \* observable library, after its subscriber threw)
    layerIdsToRemove,
    sourceIdsToRemove,
    markersToRemove,
    popupsToRemove,
    imageIdsToRemove,
    layers,             \* engine: layer ids in the style
    sources,            \* engine: source ids in the style
    images,             \* engine: image ids in the style
    engineThrows,       \* engine build: a call for an id it does not hold throws
    closeHandler,       \* popup handle -> what its 'close' listener runs (NoHandler: no listener)
    lastOp,             \* the handler that ran last
    trace,              \* engine calls and re-entrant requests of the handler that ran last
    threw,              \* the handler that ran last ended by an exception
    flushes,            \* applyChanges invocations made by the handler that ran last
    zoneLog,            \* what the handler that ran last did, each with the zone it ran in
    mapCreated,         \* the AsyncSubject behind mapCreated$
    mapLoaded,          \* the AsyncSubject behind mapLoaded$
    observed,           \* emitters of options.mapEvents that have an observer now
    hooked,             \* engine event kinds with a listener of the service on the map
    observedAtHook,     \* the emitters that had an observer when hookEvents ran
    layerHooks,         \* <<layer id, kind>> pairs with a listener of the service on the map
    camera,             \* engine: zoom, center, bearing and pitch of the view
    lastCall            \* arguments and engine arguments of the move or setLayerZoomRange that ran last

vars == << mapInstance, setupState, subscriptionClosed, subChanges,
           layerIdsToRemove, sourceIdsToRemove, markersToRemove, popupsToRemove,
           imageIdsToRemove, layers, sources, images, engineThrows,
           closeHandler, lastOp, trace, threw, flushes, zoneLog,
           mapCreated, mapLoaded, observed, hooked, observedAtHook, layerHooks,
           camera, lastCall >>

\* The service and engine state as one value, for the operators that model methods.
State ==
    [ mapInstance |-> mapInstance, setupState |-> setupState,
      subscriptionClosed |-> subscriptionClosed, subChanges |-> subChanges,
      layerIdsToRemove |-> layerIdsToRemove, sourceIdsToRemove |-> sourceIdsToRemove,
      markersToRemove |-> markersToRemove, popupsToRemove |-> popupsToRemove,
      imageIdsToRemove |-> imageIdsToRemove,
      layers |-> layers, sources |-> sources, images |-> images,
      engineThrows |-> engineThrows,
      closeHandler |-> closeHandler,
      trace |-> << >>, threw |-> FALSE, flushes |-> 0,
      mapCreated |-> mapCreated, mapLoaded |-> mapLoaded,
      observed |-> observed, hooked |-> hooked, observedAtHook |-> observedAtHook,
      layerHooks |-> layerHooks, camera |-> camera, lastCall |-> NoCall,
      zoneLog |-> << >>, zone |-> "angular" ]

\* The step ends in state s, reached by running handler op.
Commit(op, s) ==
    /\ mapInstance' = s.mapInstance
    /\ setupState' = s.setupState
    /\ subscriptionClosed' = s.subscriptionClosed
    /\ subChanges' = s.subChanges
    /\ layerIdsToRemove' = s.layerIdsToRemove
    /\ sourceIdsToRemove' = s.sourceIdsToRemove
    /\ markersToRemove' = s.markersToRemove
    /\ popupsToRemove' = s.popupsToRemove
    /\ imageIdsToRemove' = s.imageIdsToRemove
    /\ layers' = s.layers
    /\ sources' = s.sources
    /\ images' = s.images
    /\ engineThrows' = s.engineThrows
    /\ closeHandler' = s.closeHandler
    /\ lastOp' = op
    /\ trace' = s.trace
    /\ threw' = s.threw
    /\ flushes' = s.flushes
    /\ zoneLog' = s.zoneLog
    /\ mapCreated' = s.mapCreated
    /\ mapLoaded' = s.mapLoaded
    /\ observed' = s.observed
    /\ hooked' = s.hooked
    /\ observedAtHook' = s.observedAtHook
    /\ layerHooks' = s.layerHooks
    /\ camera' = s.camera
    /\ lastCall' = s.lastCall

\* One entry of zoneLog: a call ("call"), an emission of a framework emitter
\* ("emit") or an operation on one of the service's subjects ("subject").
Done(what, op, id, zone) == [what |-> what, op |-> op, id |-> id, zone |-> zone]

Call(s, op, id) ==
    [s EXCEPT !.trace = Append(@, Ev(op, id)),
              !.zoneLog = Append(@, Done("call", op, id, s.zone))]

\* emitter.emit(...): nothing of the service or the engine changes by itself.
Emit(s, op, id) == [s EXCEPT !.zoneLog = Append(@, Done("emit", op, id, s.zone))]

\* AsyncSubject.next and AsyncSubject.complete; both do nothing once stopped.
subjectNext(subj) == IF subj.isStopped THEN subj ELSE [subj EXCEPT !.hasValue = TRUE]

subjectComplete(subj) ==
    IF subj.isStopped
    THEN subj
    ELSE [subj EXCEPT !.isStopped = TRUE,
                      !.emitted = IF subj.hasValue THEN @ + 1 ELSE @]

\* zone.runOutsideAngular(fn) and zone.run(fn): fn runs in the other zone and
\* the caller's zone is current again afterwards, also when fn throws.
runOutsideAngular(s, fn(_)) == [fn([s EXCEPT !.zone = "outside"]) EXCEPT !.zone = s.zone]

zoneRun(s, fn(_)) == [fn([s EXCEPT !.zone = "angular"]) EXCEPT !.zone = s.zone]

Pending(s) ==
    Len(s.layerIdsToRemove) + Len(s.sourceIdsToRemove) + Len(s.markersToRemove)
        + Len(s.popupsToRemove) + Len(s.imageIdsToRemove)

\* ------------------------------------------------- removal requests (pure)
removeLayer(s, layerId) == [s EXCEPT !.layerIdsToRemove = Append(@, layerId)]

removeSource(s, sourceId) == [s EXCEPT !.sourceIdsToRemove = Append(@, sourceId)]

removeMarker(s, marker) == [s EXCEPT !.markersToRemove = Append(@, marker)]

removePopupFromMap(s, popup, skipCloseEvent) ==
    LET s1 == IF skipCloseEvent /\ s.closeHandler[popup] # NoHandler
              THEN [s EXCEPT !.closeHandler[popup] = NoHandler]
              ELSE s
    IN [s1 EXCEPT !.popupsToRemove = Append(@, popup)]

\* Mutant: the image is removed from the engine at once as well as enqueued.
removeImage_AlsoRemovesNow(s, imageId) ==
    [Call(s, "map.removeImage", imageId) EXCEPT
        !.images = @ \ {imageId},
        !.imageIdsToRemove = Append(@, imageId)]

removeImage(s, imageId) == [s EXCEPT !.imageIdsToRemove = Append(@, imageId)]

\* What the close observer of a popup does when the engine fires 'close':
\* createPopup's listener enters the zone and emits, and the observer calls one
\* of the service's removal requests (with skipCloseEvent left at its default).
closeObserver(s, h) ==
    CASE h.kind = "layer"  -> removeLayer(Call(s, "svc.removeLayer", h.id), h.id)
      [] h.kind = "source" -> removeSource(Call(s, "svc.removeSource", h.id), h.id)
      [] h.kind = "marker" -> removeMarker(Call(s, "svc.removeMarker", h.id), h.id)
      [] h.kind = "popup"  ->
             removePopupFromMap(Call(s, "svc.removePopupFromMap", h.id), h.id, FALSE)
      [] h.kind = "image"  -> removeImage(Call(s, "svc.removeImage", h.id), h.id)

runCloseHandler(s, popup) ==
    LET h == s.closeHandler[popup]
    IN IF h.kind = "none"
       THEN s
       ELSE zoneRun(s, LAMBDA x : closeObserver(Emit(x, "close", popup), h))

\* ------------------------------------------------------------ the flush
\* for (const layerId of this.layerIdsToRemove) { off x4; removeLayer }, then reset.
\* The for-of reads the live array: position i is compared with the array's
\* current length on every round.  An exception leaves the loop and the method,
\* so the reset is not reached.
RECURSIVE removeLayersFrom(_, _)
removeLayersFrom(s, i) ==
    IF i > Len(s.layerIdsToRemove)
    THEN [s EXCEPT !.layerIdsToRemove = << >>]
    ELSE LET layerId == s.layerIdsToRemove[i]
             s1 == Call(Call(Call(Call(Call(s, "off.click", layerId),
                        "off.mouseenter", layerId), "off.mouseleave", layerId),
                        "off.mousemove", layerId), "map.removeLayer", layerId)
         IN IF s.engineThrows /\ layerId \notin s.layers
            THEN [s1 EXCEPT !.threw = TRUE]
            ELSE removeLayersFrom([s1 EXCEPT !.layers = @ \ {layerId}], i + 1)

removeLayers(s) == removeLayersFrom(s, 1)

RECURSIVE removeSourcesFrom(_, _)
removeSourcesFrom(s, i) ==
    IF i > Len(s.sourceIdsToRemove)
    THEN [s EXCEPT !.sourceIdsToRemove = << >>]
    ELSE LET sourceId == s.sourceIdsToRemove[i]
             s1 == Call(s, "map.removeSource", sourceId)
         IN IF s.engineThrows /\ sourceId \notin s.sources
            THEN [s1 EXCEPT !.threw = TRUE]
            ELSE removeSourcesFrom([s1 EXCEPT !.sources = @ \ {sourceId}], i + 1)

removeSources(s) == removeSourcesFrom(s, 1)

\* marker.remove() takes the marker off its map, whether or not it is on one;
\* it does not throw.
RECURSIVE removeMarkersFrom(_, _)
removeMarkersFrom(s, i) ==
    IF i > Len(s.markersToRemove)
    THEN [s EXCEPT !.markersToRemove = << >>]
    ELSE removeMarkersFrom(Call(s, "marker.remove", s.markersToRemove[i]), i + 1)

removeMarkers(s) == removeMarkersFrom(s, 1)

\* popup.remove() takes the popup off its map and fires 'close' synchronously,
\* whether or not the popup is on a map.
RECURSIVE removePopupsFrom(_, _)
removePopupsFrom(s, i) ==
    IF i > Len(s.popupsToRemove)
    THEN [s EXCEPT !.popupsToRemove = << >>]
    ELSE LET popup == s.popupsToRemove[i]
         IN removePopupsFrom(runCloseHandler(Call(s, "popup.remove", popup), popup), i + 1)

removePopups(s) == removePopupsFrom(s, 1)

\* Mutant: the loop of removeImages without the reset that follows it.
RECURSIVE removeImagesFrom_NoReset(_, _)
removeImagesFrom_NoReset(s, i) ==
    IF i > Len(s.imageIdsToRemove)
    THEN s
    ELSE LET imageId == s.imageIdsToRemove[i]
             s1 == Call(s, "map.removeImage", imageId)
         IN IF s.engineThrows /\ imageId \notin s.images
            THEN [s1 EXCEPT !.threw = TRUE]
            ELSE removeImagesFrom_NoReset([s1 EXCEPT !.images = @ \ {imageId}], i + 1)

RECURSIVE removeImagesFrom(_, _)
removeImagesFrom(s, i) ==
    IF i > Len(s.imageIdsToRemove)
    THEN [s EXCEPT !.imageIdsToRemove = << >>]
    ELSE LET imageId == s.imageIdsToRemove[i]
             s1 == Call(s, "map.removeImage", imageId)
         IN IF s.engineThrows /\ imageId \notin s.images
            THEN [s1 EXCEPT !.threw = TRUE]
            ELSE removeImagesFrom([s1 EXCEPT !.images = @ \ {imageId}], i + 1)

removeImages(s) == removeImagesFrom(s, 1)

\* Mutant: the flush with the source pass ahead of the layer pass.
applyChanges_SourcesFirst(s) ==
    LET s0 == [s EXCEPT !.flushes = @ + 1, !.zone = "outside"]
        a == removeSources(s0)
        b == IF a.threw THEN a ELSE removeLayers(a)
        c == IF b.threw THEN b ELSE removeMarkers(b)
        d == IF c.threw THEN c ELSE removePopups(c)
        e == IF d.threw THEN d ELSE removeImages(d)
    IN [e EXCEPT !.zone = s.zone]

\* The five passes in the order of the source, inside runOutsideAngular; an
\* exception in one pass ends the arrow function, so the later passes do not run.
applyChanges(s) ==
    LET s0 == [s EXCEPT !.flushes = @ + 1, !.zone = "outside"]
        a == removeLayers(s0)
        b == IF a.threw THEN a ELSE removeSources(a)
        c == IF b.threw THEN b ELSE removeMarkers(b)
        d == IF c.threw THEN c ELSE removePopups(c)
        e == IF d.threw THEN d ELSE removeImages(d)
    IN [e EXCEPT !.zone = s.zone]

\* ------------------------------------------------------ life cycle (pure)
\* Mutant: the map is created but applyChanges is not subscribed to the trigger.
createMap_NoSubscription(s) ==
    [Call(s, "new Map", "map") EXCEPT
        !.mapInstance = "alive", !.layers = {}, !.sources = {}, !.images = {}]

\* new MbMap(options); subscribe applyChanges to onMicrotaskEmpty; add that
\* subscription to this.subscription.  Adding to a Subscription that is already
\* closed unsubscribes what is added at once.
createMap(s) ==
    LET s1 == Call(s, "new Map", "map")
    IN [s1 EXCEPT !.mapInstance = "alive",
                  !.layers = {}, !.sources = {}, !.images = {},
                  !.subChanges = IF s.subscriptionClosed THEN "closed" ELSE "active"]

\* Mutant: hookEvents registering a listener for every kind.
hookEvents_HooksEveryKind(s) ==
    [s EXCEPT !.hooked = MapEventKinds,
              !.observedAtHook = s.observed,
              !.zoneLog = Append(@, Done("hook", "hookEvents", "map", s.zone))]

\* mapInstance.on('load', ...) always; mapInstance.on(kind, ...) for every other
\* kind whose emitter has an observer at this moment.
hookEvents(s) ==
    [s EXCEPT !.hooked = {"load"} \cup s.observed,
              !.observedAtHook = s.observed,
              !.zoneLog = Append(@, Done("hook", "hookEvents", "map", s.zone))]

\* Mutant: the callback of setup announcing the map before it creates it.
setupCallback_AnnouncesFirst(s) ==
    LET a == [s EXCEPT !.mapCreated = subjectNext(@),
                       !.zoneLog = Append(@, Done("subject", "mapCreated.next", "map", s.zone))]
        b == [a EXCEPT !.mapCreated = subjectComplete(@),
                       !.zoneLog = Append(@, Done("subject", "mapCreated.complete", "map", s.zone))]
    IN [hookEvents(createMap(b)) EXCEPT !.setupState = "done"]

\* The callback setup() hands to onStable.pipe(first()): createMap, hookEvents,
\* mapCreated.next, mapCreated.complete.
setupCallback(s) ==
    LET a == hookEvents(createMap(s))
        b == [a EXCEPT !.mapCreated = subjectNext(@),
                       !.zoneLog = Append(@, Done("subject", "mapCreated.next", "map", s.zone))]
        c == [b EXCEPT !.mapCreated = subjectComplete(@),
                       !.zoneLog = Append(@, Done("subject", "mapCreated.complete", "map", s.zone))]
    IN [c EXCEPT !.setupState = "done"]

\* Mutant: destroyMap that also empties the five arrays.
destroyMap_ClearsArrays(s) ==
    LET s1 == [s EXCEPT !.subscriptionClosed = TRUE,
                        !.subChanges = IF @ = "active" THEN "closed" ELSE @,
                        !.layerIdsToRemove = << >>, !.sourceIdsToRemove = << >>,
                        !.markersToRemove = << >>, !.popupsToRemove = << >>,
                        !.imageIdsToRemove = << >>]
    IN IF s.mapInstance = "none"
       THEN [s1 EXCEPT !.threw = TRUE]
       ELSE [Call(s1, "map.remove", "map") EXCEPT
                !.mapInstance = "removed",
                !.layers = {}, !.sources = {}, !.images = {}]

\* Mutant: the map is removed but the trigger subscription is left running.
destroyMap_KeepsSubChanges(s) ==
    LET s1 == [s EXCEPT !.subscriptionClosed = TRUE]
    IN IF s.mapInstance = "none"
       THEN [s1 EXCEPT !.threw = TRUE]
       ELSE [Call(s1, "map.remove", "map") EXCEPT
                !.mapInstance = "removed",
                !.layers = {}, !.sources = {}, !.images = {}]

\* this.subscription.unsubscribe(); this.mapInstance.remove().  With the map
\* not created yet the second statement is a TypeError on undefined.
destroyMap(s) ==
    LET s1 == [s EXCEPT !.subscriptionClosed = TRUE,
                        !.subChanges = IF @ = "active" THEN "closed" ELSE @]
    IN IF s.mapInstance = "none"
       THEN [s1 EXCEPT !.threw = TRUE]
       ELSE [Call(s1, "map.remove", "map") EXCEPT
                !.mapInstance = "removed",
                !.layers = {}, !.sources = {}, !.images = {}]

\* One emission of zone.onMicrotaskEmpty: the subscriber made in createMap, if
\* still subscribed, runs applyChanges once.  When applyChanges throws, the
\* observable library keeps the subscriber or unsubscribes it (drops),
\* depending on its version.
onMicrotaskEmpty(s, drops) ==
    IF s.subChanges # "active"
    THEN s
    ELSE LET r == applyChanges(s)
         IN IF r.threw /\ drops THEN [r EXCEPT !.subChanges = "dropped"] ELSE r

\* One emission of zone.onStable: the first() subscriber of setup, if any.
\* NgZone emits onStable outside the framework zone (createMap asserts it).
onStable(s) ==
    IF s.setupState = "pending"
    THEN [setupCallback([s EXCEPT !.zone = "outside"]) EXCEPT !.zone = s.zone]
    ELSE s

Init ==
    /\ mapInstance = "none"
    /\ setupState = "none"
    /\ subscriptionClosed = FALSE
    /\ subChanges = "none"
    /\ layerIdsToRemove = << >>
    /\ sourceIdsToRemove = << >>
    /\ markersToRemove = << >>
    /\ popupsToRemove = << >>
    /\ imageIdsToRemove = << >>
    /\ layers = {}
    /\ sources = {}
    /\ images = {}
    /\ engineThrows \in BOOLEAN
    /\ closeHandler = [p \in Popups |-> NoHandler]
    /\ lastOp = "constructor"
    /\ trace = << >>
    /\ threw = FALSE
    /\ flushes = 0
    /\ zoneLog = << >>
    /\ mapCreated = NewSubject
    /\ mapLoaded = NewSubject
    /\ observed = {}
    /\ hooked = {}
    /\ observedAtHook = {}
    /\ layerHooks = {}
    /\ camera = DefaultCamera
    /\ lastCall = NoCall

\* ---------------------------------------------------------------- actions
Setup ==
    /\ setupState = "none"
    /\ Commit("setup", [State EXCEPT !.setupState = "pending"])

\* The owning component is destroyed once.
DestroyMap ==
    /\ ~subscriptionClosed
    /\ Commit("destroyMap", destroyMap(State))

AddLayer ==
    /\ mapInstance = "alive"
    /\ \E layerId \in LayerIds \ layers :
         Commit("add",
                runOutsideAngular(State, LAMBDA x :
                    [Call(x, "map.addLayer", layerId) EXCEPT !.layers = @ \cup {layerId}]))

AddSource ==
    /\ mapInstance = "alive"
    /\ \E sourceId \in SourceIds \ sources :
         Commit("add",
                runOutsideAngular(State, LAMBDA x :
                    [Call(x, "map.addSource", sourceId) EXCEPT !.sources = @ \cup {sourceId}]))

AddImage ==
    /\ mapInstance = "alive"
    /\ \E imageId \in ImageIds \ images :
         Commit("add",
                runOutsideAngular(State, LAMBDA x :
                    [Call(x, "map.addImage", imageId) EXCEPT !.images = @ \cup {imageId}]))

\* createPopup registers the 'close' listener only when the close emitter is
\* observed; h says what that observer does.
CreatePopup ==
    \E h \in CloseHandlers \ {NoHandler} :
        /\ closeHandler["p1"] = NoHandler
        /\ Commit("createPopup", [State EXCEPT !.closeHandler["p1"] = h])

RemoveLayer ==
    /\ Pending(State) < MaxPending
    /\ \E layerId \in LayerIds : Commit("request", removeLayer(State, layerId))

RemoveSource ==
    /\ Pending(State) < MaxPending
    /\ \E sourceId \in SourceIds : Commit("request", removeSource(State, sourceId))

RemoveMarker ==
    /\ Pending(State) < MaxPending
    /\ \E marker \in Markers : Commit("request", removeMarker(State, marker))

RemovePopupFromMap ==
    /\ Pending(State) < MaxPending
    /\ \E popup \in Popups, skipCloseEvent \in BOOLEAN :
         Commit("request", removePopupFromMap(State, popup, skipCloseEvent))

RemoveImage ==
    /\ Pending(State) < MaxPending
    /\ \E imageId \in ImageIds : Commit("request", removeImage(State, imageId))

OnMicrotaskEmpty ==
    \E drops \in BOOLEAN : Commit("onMicrotaskEmpty", onMicrotaskEmpty(State, drops))

\* NgZone emits onStable right after an onMicrotaskEmpty emission.
OnStable ==
    /\ lastOp = "onMicrotaskEmpty"
    /\ Commit("onStable", onStable(State))

Next ==
    \/ Setup
    \/ DestroyMap
    \/ AddLayer
    \/ AddSource
    \/ AddImage
    \/ CreatePopup
    \/ RemoveLayer
    \/ RemoveSource
    \/ RemoveMarker
    \/ RemovePopupFromMap
    \/ RemoveImage
    \/ OnMicrotaskEmpty
    \/ OnStable

Spec == Init /\ [][Next]_vars

\* ------------------------------------------- the other public operations
\* new Marker(options), listeners, setLngLat, then addTo(mapInstance) outside
\* the zone.
AddMarker ==
    /\ mapInstance = "alive"
    /\ \E marker \in Markers :
         Commit("add", runOutsideAngular(State, LAMBDA x : Call(x, "marker.addTo", marker)))

\* A camera operation.
PanTo ==
    /\ mapInstance = "alive"
    /\ Commit("camera", runOutsideAngular(State, LAMBDA x : Call(x, "map.panTo", "map")))

\* A property setter.
UpdateMinZoom ==
    /\ mapInstance = "alive"
    /\ Commit("setter", runOutsideAngular(State, LAMBDA x : Call(x, "map.setMinZoom", "map")))

\* The service with every public operation, the application keeping at most
\* MaxPendingOps removals pending.
NextOps ==
    \/ Next /\ Pending(State)' <= MaxPendingOps
    \/ AddMarker
    \/ PanTo
    \/ UpdateMinZoom

SpecOps == Init /\ [][NextOps]_vars

\* ------------------------------------------------------- engine events
\* The listener hookEvents registered for 'load'.
onLoad(s) ==
    LET a == [s EXCEPT !.mapLoaded = subjectNext(@),
                       !.zoneLog = Append(@, Done("subject", "mapLoaded.next", "map", s.zone))]
        b == [a EXCEPT !.mapLoaded = subjectComplete(@),
                       !.zoneLog = Append(@, Done("subject", "mapLoaded.complete", "map", s.zone))]
    IN zoneRun(b, LAMBDA x : Emit(x, "load", "map"))

\* The engine fires a map event of the given kind: the listener of the
\* service, if there is one, runs.
onMapEvent(s, kind) ==
    IF kind \notin s.hooked
    THEN s
    ELSE IF kind = "load"
         THEN onLoad(s)
         ELSE zoneRun(s, LAMBDA x : Emit(x, kind, "map"))

\* The engine fires an event of the given kind on a layer.
onLayerEvent(s, layerId, kind) ==
    IF << layerId, kind >> \notin s.layerHooks
    THEN s
    ELSE zoneRun(s, LAMBDA x : Emit(x, kind, layerId))

\* addLayer(layer, bindEvents): the layer is added and, with bindEvents, a
\* listener is registered for each of the four kinds whose emitter has an
\* observer (obs) at this moment.
addLayer(s, layerId, bindEvents, obs) ==
    LET kinds == IF bindEvents
                 THEN SelectSeq(LayerEventOrder, LAMBDA kind : kind \in obs)
                 ELSE << >>
    IN runOutsideAngular(s, LAMBDA x :
        [Call(x, "map.addLayer", layerId) EXCEPT
            !.layers = @ \cup {layerId},
            !.layerHooks = @ \cup { << layerId, kinds[i] >> : i \in DOMAIN kinds },
            !.zoneLog = @ \o [i \in DOMAIN kinds |->
                                Done("hook", kinds[i], layerId, x.zone)]])

\* What the application hands to addLayer: bindEvents, and a layer whose
\* emitters obs have an observer.
Asked(s, layerId, bindEvents, obs) ==
    LET kinds == SelectSeq(LayerEventOrder, LAMBDA kind : kind \in obs)
    IN [s EXCEPT !.zoneLog =
            Append(@, Done("input", IF bindEvents THEN "bindEvents" ELSE "noBindEvents",
                           layerId, s.zone))
            \o [i \in DOMAIN kinds |-> Done("observer", kinds[i], layerId, s.zone)]]

\* The engine fires an event: it does so outside the framework zone, where the
\* map was created.
Fired(s, kind, id) ==
    [s EXCEPT !.zone = "outside",
              !.zoneLog = Append(@, Done("engine", kind, id, "outside"))]

\* The application subscribes to one of the emitters of options.mapEvents.
Observe ==
    \E kind \in MapEventKinds \ observed :
        Commit("observe", [State EXCEPT !.observed = @ \cup {kind}])

AddLayerBound ==
    /\ mapInstance = "alive"
    /\ \E layerId \in LayerIds \ layers, bindEvents \in BOOLEAN,
          obs \in LayerObserverChoices :
         Commit("addLayer",
                addLayer(Asked(State, layerId, bindEvents, obs), layerId, bindEvents, obs))

\* The engine fires 'load' once.
MapEvent ==
    /\ mapInstance = "alive"
    /\ \E kind \in MapEventKinds :
         /\ kind = "load" => ~mapLoaded.isStopped
         /\ Commit("mapEvent", onMapEvent(Fired(State, kind, "map"), kind))

LayerEvent ==
    /\ mapInstance = "alive"
    /\ \E layerId \in layers, kind \in LayerEventKinds :
         Commit("layerEvent", onLayerEvent(Fired(State, kind, layerId), layerId, kind))

NextEvents ==
    \/ RemoveMarker /\ Pending(State)' <= MaxPendingOps
    \/ Setup
    \/ Observe
    \/ DestroyMap
    \/ OnMicrotaskEmpty
    \/ OnStable
    \/ AddLayerBound
    \/ MapEvent
    \/ LayerEvent

SpecEvents == Init /\ [][NextEvents]_vars

\* ------------------------------------------- move and setLayerZoomRange
\* x ? x : y for a number that may have been left out: undefined and 0 are
\* both falsy.
OrElse(x, y) == IF x # Undefined /\ x # 0 THEN x ELSE y

\* The object move hands to the engine: the keys of movingOptions, then zoom,
\* center, bearing and pitch, which replace keys of the same name.
moveOptions(s, movingOptions, zoom, center, bearing, pitch) ==
    [k \in DOMAIN movingOptions \cup CameraKeys |->
        CASE k = "zoom"    -> OrElse(zoom, s.camera.zoom)
          [] k = "center"  -> OrElse(center, s.camera.center)
          [] k = "bearing" -> OrElse(bearing, s.camera.bearing)
          [] k = "pitch"   -> OrElse(pitch, s.camera.pitch)
          [] OTHER         -> movingOptions[k]]

\* mapInstance[movingMethod](options) outside the zone; the view ends at the
\* zoom, center, bearing and pitch of the options.
move(s, movingMethod, movingOptions, zoom, center, bearing, pitch) ==
    LET options == moveOptions(s, movingOptions, zoom, center, bearing, pitch)
    IN runOutsideAngular(s, LAMBDA x :
        [Call(x, movingMethod, "map") EXCEPT
            !.camera = [k \in CameraKeys |-> options[k]],
            !.lastCall = [op |-> "move", movingOptions |-> movingOptions,
                          zoom |-> zoom, center |-> center, bearing |-> bearing,
                          pitch |-> pitch, passed |-> options]])

setLayerZoomRange(s, layerId, minZoom, maxZoom) ==
    runOutsideAngular(s, LAMBDA x :
        [Call(x, "map.setLayerZoomRange", layerId) EXCEPT
            !.lastCall = [op |-> "setLayerZoomRange", minZoom |-> minZoom,
                          maxZoom |-> maxZoom,
                          passed |-> [minzoom |-> OrElse(minZoom, DefaultMinZoom),
                                      maxzoom |-> OrElse(maxZoom, DefaultMaxZoom)]]])

Move ==
    /\ mapInstance = "alive"
    /\ \E movingMethod \in MovingMethods,
          movingOptions \in MovingOptionsChoices,
          zoom \in ZoomArgs, center \in CenterArgs,
          bearing \in AngleArgs, pitch \in AngleArgs :
         Commit("move", move(State, movingMethod, movingOptions, zoom, center, bearing, pitch))

SetLayerZoomRange ==
    /\ mapInstance = "alive"
    /\ \E layerId \in LayerIds, minZoom \in ZoomBoundArgs, maxZoom \in ZoomBoundArgs :
         Commit("setLayerZoomRange", setLayerZoomRange(State, layerId, minZoom, maxZoom))

NextCamera ==
    \/ Setup
    \/ OnMicrotaskEmpty
    \/ OnStable
    \/ Move
    \/ SetLayerZoomRange

SpecCamera == Init /\ [][NextCamera]_vars

\* ------------------------------------------------ vocabulary of the claims
TeardownOps ==
    { "map.removeLayer", "map.removeSource", "marker.remove", "popup.remove",
      "map.removeImage" }

RequestOps ==
    { "svc.removeLayer", "svc.removeSource", "svc.removeMarker",
      "svc.removePopupFromMap", "svc.removeImage" }

IsTeardown(e) == e.op \in TeardownOps
IsRequest(e) == e.op \in RequestOps
IsOp(e, op) == e.op = op

\* The teardown invocations of a handler, in the order they were made.
Teardowns(tr) == SelectSeq(tr, IsTeardown)
\* Everything a handler asked of the engine (listener unbinding included).
EngineCalls(tr) == SelectSeq(tr, LAMBDA e : ~IsRequest(e))
\* The removal requests the application made while the handler was running.
Reentrant(tr) == SelectSeq(tr, IsRequest)
\* The arguments of the events of tr whose operation is op, in order.
IdsOf(tr, op) ==
    LET sel == SelectSeq(tr, LAMBDA e : e.op = op)
    IN [i \in 1..Len(sel) |-> sel[i].id]

\* The teardown invocations one flush owes the five arrays as they stand.
Owed ==
    [i \in 1..Len(layerIdsToRemove) |-> Ev("map.removeLayer", layerIdsToRemove[i])]
    \o [i \in 1..Len(sourceIdsToRemove) |-> Ev("map.removeSource", sourceIdsToRemove[i])]
    \o [i \in 1..Len(markersToRemove) |-> Ev("marker.remove", markersToRemove[i])]
    \o [i \in 1..Len(popupsToRemove) |-> Ev("popup.remove", popupsToRemove[i])]
    \o [i \in 1..Len(imageIdsToRemove) |-> Ev("map.removeImage", imageIdsToRemove[i])]

\* This step is a firing of the trigger that ran the flush.
FlushStep == lastOp' = "onMicrotaskEmpty" /\ flushes' = 1
\* The state was reached by a firing of the trigger that ran the flush.
Flushed == lastOp = "onMicrotaskEmpty" /\ flushes = 1

\* ------------------------------------------------------------------ C1
\* C1: a flush makes exactly one teardown invocation per entry enqueued before
\* it, layers first, then sources, markers, popups, images, each kind in
\* insertion order (flushes during which the application makes no further
\* request).
C1_OneTeardownPerEntryInOrder ==
    [][ (FlushStep /\ Reentrant(trace') = << >>) => Teardowns(trace') = Owed ]_vars

\* ------------------------------------------------------------------ C2
\* C2: when the teardown of an entry fails during a flush, the teardown of
\* every later entry of that kind and of every entry of the later kinds is
\* still invoked in that flush: no owed teardown is left out.
C2_FailureIsIsolated ==
    [][ (FlushStep /\ threw' /\ Reentrant(trace') = << >>)
            => Len(Teardowns(trace')) = Len(Owed) ]_vars

\* ------------------------------------------------------------------ C3
\* C3: a removal request made while a flush is running is not torn down by
\* that flush: of each kind, the flush tears down no more entries than the
\* array held when the flush started.
C3_ReentrantRequestWaitsForNextFlush ==
    [][ FlushStep =>
          /\ Len(IdsOf(trace', "map.removeLayer")) <= Len(layerIdsToRemove)
          /\ Len(IdsOf(trace', "map.removeSource")) <= Len(sourceIdsToRemove)
          /\ Len(IdsOf(trace', "marker.remove")) <= Len(markersToRemove)
          /\ Len(IdsOf(trace', "popup.remove")) <= Len(popupsToRemove)
          /\ Len(IdsOf(trace', "map.removeImage")) <= Len(imageIdsToRemove) ]_vars

\* ------------------------------------------------------------------ C4
AllEmpty ==
    /\ layerIdsToRemove = << >>
    /\ sourceIdsToRemove = << >>
    /\ markersToRemove = << >>
    /\ popupsToRemove = << >>
    /\ imageIdsToRemove = << >>

queues ==
    << layerIdsToRemove, sourceIdsToRemove, markersToRemove, popupsToRemove,
       imageIdsToRemove >>

\* C4 as claimed: a firing of the trigger that follows destroyMap makes no
\* engine call and leaves the five arrays empty.
C4_PendingClearedAfterDestroy ==
    [][ (lastOp = "destroyMap" /\ mapInstance = "removed" /\ lastOp' = "onMicrotaskEmpty")
            => (EngineCalls(trace') = << >> /\ AllEmpty') ]_vars

\* C4 as amended: once destroyMap has been called, a firing of the trigger
\* runs no flush and makes no engine call, and it leaves the five arrays as
\* they are (the pending entries are never torn down, and never cleared).
C4_NoFlushAfterDestroy ==
    [][ (subscriptionClosed /\ lastOp' = "onMicrotaskEmpty")
            => (flushes' = 0 /\ trace' = << >> /\ UNCHANGED queues) ]_vars

\* The trigger has fired after destroyMap removed the map, with entries pending.
C4_Witness ==
    /\ lastOp = "onMicrotaskEmpty"
    /\ subscriptionClosed
    /\ mapInstance = "removed"
    /\ Pending(State) >= 2

\* ------------------------------------------------------------------ C5
\* C5: an entry whose teardown failed is discarded after that attempt, and so
\* are the entries of its array torn down before it: after a flush that threw,
\* the array of the failing kind holds no entry this flush has attempted.
C5_FailedEntryIsDiscarded ==
    (Flushed /\ threw /\ Reentrant(trace) = << >>) =>
        LET failed == trace[Len(trace)]
            kept == CASE failed.op = "map.removeLayer"  -> layerIdsToRemove
                      [] failed.op = "map.removeSource" -> sourceIdsToRemove
                      [] failed.op = "map.removeImage"  -> imageIdsToRemove
                      [] OTHER -> << >>
        IN \A i \in DOMAIN kept, j \in DOMAIN trace :
               ~(trace[j].op = failed.op /\ trace[j].id = kept[i])

\* ------------------------------------------------------------------ C6
\* C6 as claimed: from construction until destroyMap every firing of the
\* trigger runs the flush exactly once.
C6_OneFlushPerFiringSinceConstruction ==
    [][ (~subscriptionClosed /\ lastOp' = "onMicrotaskEmpty") => flushes' = 1 ]_vars

\* C6 as amended: the trigger is subscribed when the map is created (at the
\* first onStable after setup), not at construction.  A firing runs the flush
\* exactly once, whatever has accumulated, when the map has been created,
\* destroyMap has not been called and the observable library has not dropped
\* the subscriber after a flush that threw; otherwise it runs no flush.
C6_OneFlushPerFiringWhileSubscribed ==
    [][ lastOp' = "onMicrotaskEmpty" =>
          flushes' = IF mapInstance = "alive" /\ ~subscriptionClosed
                          /\ subChanges # "dropped"
                     THEN 1 ELSE 0 ]_vars

\* One flush has torn down MaxPending accumulated entries of three kinds.
C6_Witness ==
    /\ Flushed
    /\ Len(Teardowns(trace)) >= MaxPending
    /\ Cardinality({ trace[i].op : i \in DOMAIN trace } \cap TeardownOps) >= 3

\* ------------------------------------------------------------------ C7
\* qn is q with exactly one entry added at its end.
Appended(q, qn) == Len(qn) = Len(q) + 1 /\ SubSeq(qn, 1, Len(q)) = q

\* A step that adds one entry at the end of one array and leaves the other four.
AppendsToOneArray ==
    \/ Appended(layerIdsToRemove, layerIdsToRemove')
         /\ UNCHANGED << sourceIdsToRemove, markersToRemove, popupsToRemove, imageIdsToRemove >>
    \/ Appended(sourceIdsToRemove, sourceIdsToRemove')
         /\ UNCHANGED << layerIdsToRemove, markersToRemove, popupsToRemove, imageIdsToRemove >>
    \/ Appended(markersToRemove, markersToRemove')
         /\ UNCHANGED << layerIdsToRemove, sourceIdsToRemove, popupsToRemove, imageIdsToRemove >>
    \/ Appended(popupsToRemove, popupsToRemove')
         /\ UNCHANGED << layerIdsToRemove, sourceIdsToRemove, markersToRemove, imageIdsToRemove >>
    \/ Appended(imageIdsToRemove, imageIdsToRemove')
         /\ UNCHANGED << layerIdsToRemove, sourceIdsToRemove, markersToRemove, popupsToRemove >>

\* A step that neither fails nor calls the engine nor changes the map, its
\* style or the service's subscriptions.
NoEngineEffect ==
    /\ ~threw'
    /\ trace' = << >>
    /\ UNCHANGED << mapInstance, setupState, subscriptionClosed, subChanges,
                    layers, sources, images >>

\* C7 as claimed: a removal request does not fail, calls nothing of the engine
\* and changes nothing but its own array, which gets one entry at its end.
C7_RequestOnlyAppends ==
    [][ lastOp' = "request" =>
          (NoEngineEffect /\ AppendsToOneArray /\ UNCHANGED closeHandler) ]_vars

\* C7 as amended: as claimed, except that removePopupFromMap called with
\* skipCloseEvent also deletes the 'close' listeners of the popup it enqueues.
C7_RequestAppendsAndMayDropCloseListener ==
    [][ lastOp' = "request" =>
          /\ NoEngineEffect
          /\ AppendsToOneArray
          /\ \/ UNCHANGED closeHandler
             \/ /\ Appended(popupsToRemove, popupsToRemove')
                /\ closeHandler' =
                     [closeHandler EXCEPT ![popupsToRemove'[Len(popupsToRemove')]] = NoHandler]
       ]_vars

\* Requests of three kinds have been appended, the last one for a popup.
C7_Witness ==
    /\ lastOp = "request"
    /\ Len(layerIdsToRemove) = 1
    /\ Len(imageIdsToRemove) = 1
    /\ popupsToRemove = << "p1" >>

\* ------------------------------------------------------------------ C8
\* C8 as claimed: when a flush completes without failure all five arrays are
\* empty.
C8_AllEmptyAfterFlush == (Flushed /\ ~threw) => AllEmpty

\* The operation whose call ended the last handler by an exception.
FailedOp == IF threw /\ trace # << >> THEN trace[Len(trace)].op ELSE "none"

\* C8 as amended: an array that a flush has processed holds, when the flush
\* ends, exactly the requests made for its kind while the flush was running
\* after its reset (none for popups and images, whose re-entrant requests the
\* same flush consumes), also when a later kind fails; so a flush that
\* completes without failure and without re-entrant request leaves all five
\* arrays empty.
C8_ProcessedArraysHoldOnlyReentrantRequests ==
    Flushed =>
        /\ FailedOp # "map.removeLayer"
              => layerIdsToRemove = IdsOf(trace, "svc.removeLayer")
        /\ FailedOp \notin {"map.removeLayer", "map.removeSource"}
              => /\ sourceIdsToRemove = IdsOf(trace, "svc.removeSource")
                 /\ markersToRemove = IdsOf(trace, "svc.removeMarker")
                 /\ popupsToRemove = << >>
        /\ FailedOp = "none" => imageIdsToRemove = << >>
        /\ (FailedOp = "none" /\ Reentrant(trace) = << >>) => AllEmpty

\* A flush has processed a layer and a popup and then failed on an image.
C8_Witness ==
    /\ Flushed
    /\ FailedOp = "map.removeImage"
    /\ IdsOf(trace, "map.removeLayer") # << >>
    /\ IdsOf(trace, "popup.remove") # << >>
    /\ layerIdsToRemove = << >>
    /\ popupsToRemove = << >>

\* ------------------------------------------------------------------ C9
\* C9: a flush that starts with the five arrays empty makes no engine call,
\* and a flush that directly follows a flush (no request made in between or
\* during the first one) makes no engine call.
C9_SecondFlushMakesNoCall ==
    [][ FlushStep =>
          /\ AllEmpty => EngineCalls(trace') = << >>
          /\ (Flushed /\ Reentrant(trace) = << >>) => EngineCalls(trace') = << >>
       ]_vars

\* ------------------------------------------------------------------ C10
\* How many times x occurs in sequence q.
Count(q, x) == Cardinality({ i \in DOMAIN q : q[i] = x })

\* C10: no deduplication.  A request for an identifier already pending adds a
\* further entry, and the flush attempts the removal of an identifier as many
\* times as it is pending.
C10_NoDeduplication ==
    [][ /\ (lastOp' = "request" => Len(Owed') = Len(Owed) + 1)
        /\ (FlushStep /\ Reentrant(trace') = << >>) =>
              /\ \A id \in LayerIds : Count(layerIdsToRemove, id) >= 2 =>
                   Count(IdsOf(trace', "map.removeLayer"), id) = Count(layerIdsToRemove, id)
              /\ \A id \in SourceIds : Count(sourceIdsToRemove, id) >= 2 =>
                   Count(IdsOf(trace', "map.removeSource"), id) = Count(sourceIdsToRemove, id)
              /\ \A id \in Markers : Count(markersToRemove, id) >= 2 =>
                   Count(IdsOf(trace', "marker.remove"), id) = Count(markersToRemove, id)
              /\ \A id \in Popups : Count(popupsToRemove, id) >= 2 =>
                   Count(IdsOf(trace', "popup.remove"), id) = Count(popupsToRemove, id)
              /\ \A id \in ImageIds : Count(imageIdsToRemove, id) >= 2 =>
                   Count(IdsOf(trace', "map.removeImage"), id) = Count(imageIdsToRemove, id)
       ]_vars

\* ------------------------------------------------------------------ C11
Positions(tr, op) == { j \in 1..Len(tr) : tr[j].op = op }

\* The four listener kinds removeLayers unbinds, in the order of the source.
UnbindOps == << "off.click", "off.mouseenter", "off.mouseleave", "off.mousemove" >>

\* The call at position j of tr is directly preceded by the four unbinding
\* calls for the same layer.
UnboundJustBefore(tr, j) ==
    /\ j > Len(UnbindOps)
    /\ \A k \in 1..Len(UnbindOps) :
          tr[j - Len(UnbindOps) - 1 + k] = Ev(UnbindOps[k], tr[j].id)

\* C11: in every flush, each removeLayer call of the engine comes right after
\* the four unbinding calls (click, mouseenter, mouseleave, mousemove) for that
\* layer; no removeLayer call comes after a removeSource call; and when the
\* flush calls removeSource at all, every layer that was queued when the flush
\* started has had its removeLayer call before.
C11_LayersDetachedBeforeSources ==
    [][ FlushStep =>
          /\ \A j \in Positions(trace', "map.removeLayer") : UnboundJustBefore(trace', j)
          /\ \A j \in Positions(trace', "map.removeLayer"),
                k \in Positions(trace', "map.removeSource") : j < k
          /\ Positions(trace', "map.removeSource") # {}
                => IdsOf(trace', "map.removeLayer") = layerIdsToRemove ]_vars

\* A flush has detached a layer and then removed a source.
C11_Witness ==
    /\ Flushed
    /\ Positions(trace, "map.removeLayer") # {}
    /\ Positions(trace, "map.removeSource") # {}

\* ------------------------------------------------------------------ C12
\* C12: the five arrays are empty when the service has been constructed, and
\* every operation other than the five removal requests and the firing of the
\* trigger (setup, destroyMap, addLayer, addSource, addImage, addMarker,
\* createPopup, the camera operation, the property setter, onStable) leaves
\* all five as they are.
C12_OnlyRequestsAndFlushChangeArrays ==
    [][ /\ lastOp = "constructor" => AllEmpty
        /\ lastOp' \notin {"request", "onMicrotaskEmpty"} => UNCHANGED queues ]_vars

\* destroyMap has removed the map while entries were pending.
C12_Witness == lastOp = "destroyMap" /\ mapInstance = "removed" /\ ~AllEmpty

\* ------------------------------------------------------------------ C13
\* C13: the teardown of an enqueued entry is invoked at most once: no handler
\* runs a flush inside a flush, and a flush that directly follows a flush (no
\* request made in between or during the first one) repeats none of the
\* teardown invocations the first one made.
C13_AtMostOneTeardownPerEntry ==
    [][ /\ flushes' <= 1
        /\ (Flushed /\ Reentrant(trace) = << >> /\ FlushStep) =>
              \A i \in DOMAIN Teardowns(trace), j \in DOMAIN Teardowns(trace') :
                  Teardowns(trace')[j] # Teardowns(trace)[i] ]_vars

\* ------------------------------------------------------------------ C14
\* C14: once destroyMap has been called, no firing of onStable or of
\* onMicrotaskEmpty makes an engine call: no map instance is created and no
\* flush runs.
C14_NoEngineCallAfterDestroy ==
    [][ (subscriptionClosed /\ lastOp' \in {"onStable", "onMicrotaskEmpty"})
            => /\ EngineCalls(trace') = << >>
               /\ mapInstance' = mapInstance
               /\ flushes' = 0 ]_vars

\* ------------------------------------------------------------------ C15
\* The service has a map and destroyMap has not been called.
MapIsLive == mapInstance = "alive" /\ ~subscriptionClosed

\* What a flush works on: the five arrays and what the engine holds.
work == << queues, layers, sources, images >>

\* C15: progress.  While the map is live, a firing of the trigger with a source
\* entry pending invokes the teardown of a source entry, or at least changes
\* the arrays or the engine, so that the firings that follow get to it: no
\* firing leaves everything as it was with the entry still not attempted.
C15_PendingEntryIsReached ==
    [][ (MapIsLive /\ sourceIdsToRemove # << >> /\ lastOp' = "onMicrotaskEmpty")
            => (Positions(trace', "map.removeSource") # {} \/ work' # work) ]_vars

\* ------------------------------------------------------------------ C16
Range(q) == { q[i] : i \in DOMAIN q }

\* C16: program order.  When the removal of an identifier is pending and the
\* application then adds a resource under that identifier, the flush that
\* follows leaves the resource in the engine (layers, sources and images).
C16_AddAfterRemoveSurvivesFlush ==
    [][ (lastOp = "add" /\ FlushStep /\ ~threw') =>
          \A j \in DOMAIN trace :
              /\ (trace[j].op = "map.addLayer" /\ trace[j].id \in Range(layerIdsToRemove))
                    => trace[j].id \in layers'
              /\ (trace[j].op = "map.addSource" /\ trace[j].id \in Range(sourceIdsToRemove))
                    => trace[j].id \in sources'
              /\ (trace[j].op = "map.addImage" /\ trace[j].id \in Range(imageIdsToRemove))
                    => trace[j].id \in images' ]_vars

\* ------------------------------------------------------------------ C17
\* The positions of zoneLog entries of one sort and operation.
Where(log, what, op) == { j \in DOMAIN log : log[j].what = what /\ log[j].op = op }

\* Every entry of the first sort comes before every entry of the second.
Before(log, what1, op1, what2, op2) ==
    \A i \in Where(log, what1, op1), j \in Where(log, what2, op2) : i < j

\* C17: the map instance is created once, by the first firing of onStable that
\* follows setup and not before.  mapCreated$ emits once and completes, in the
\* handler that created the map and after the map exists and its events are
\* hooked.  mapLoaded$ emits once and completes in the handler of the engine's
\* 'load' event, before that event is emitted on the framework emitter, and
\* never before mapCreated$ has emitted.
C17_CreatedThenLoaded ==
    [][ /\ Positions(trace', "new Map") # {} =>
              /\ lastOp' = "onStable" /\ setupState = "pending" /\ mapInstance = "none"
              /\ Cardinality(Positions(trace', "new Map")) = 1
        /\ (setupState = "pending" /\ lastOp' = "onStable") => mapInstance' = "alive"
        /\ setupState' # "done" => (mapInstance' = "none" /\ mapCreated'.emitted = 0)
        /\ mapCreated'.emitted # mapCreated.emitted =>
              /\ mapCreated.emitted = 0 /\ mapCreated'.emitted = 1 /\ mapCreated'.isStopped
              /\ Where(zoneLog', "call", "new Map") # {}
              /\ Where(zoneLog', "hook", "hookEvents") # {}
              /\ Before(zoneLog', "call", "new Map", "subject", "mapCreated.next")
              /\ Before(zoneLog', "hook", "hookEvents", "subject", "mapCreated.next")
              /\ Before(zoneLog', "subject", "mapCreated.next", "subject", "mapCreated.complete")
        /\ mapInstance' # "none" => mapCreated'.emitted = 1
        /\ mapLoaded'.emitted # mapLoaded.emitted =>
              /\ mapLoaded.emitted = 0 /\ mapLoaded'.emitted = 1 /\ mapLoaded'.isStopped
              /\ zoneLog'[1] = Done("engine", "load", "map", "outside")
              /\ Where(zoneLog', "emit", "load") # {}
              /\ Before(zoneLog', "subject", "mapLoaded.complete", "emit", "load")
        /\ Where(zoneLog', "engine", "load") # {} => mapLoaded'.emitted = 1
        /\ mapLoaded'.emitted <= mapCreated'.emitted ]_vars

\* The engine has fired 'load' and the service has announced and republished it.
C17_Witness ==
    /\ lastOp = "mapEvent"
    /\ mapLoaded.emitted = 1
    /\ mapCreated.emitted = 1
    /\ Where(zoneLog, "emit", "load") # {}

\* ------------------------------------------------------------------ C18
\* The handler whose log this is emitted kind on the emitter of id.
Emitted(log, kind, id) ==
    \E j \in DOMAIN log : log[j].what = "emit" /\ log[j].op = kind /\ log[j].id = id

\* This step registers listeners exactly for the emitters observed at that
\* moment: hookEvents for the map ('load' always), addLayer with bindEvents for
\* a layer; no other step registers a listener.
HooksWhatIsObserved ==
    /\ (hooked' # hooked \/ observedAtHook' # observedAtHook) =>
          /\ Where(zoneLog', "hook", "hookEvents") # {}
          /\ observedAtHook' = observed
          /\ hooked' = {"load"} \cup observed
    /\ lastOp' = "addLayer" =>
          LET layerId == zoneLog'[1].id
              bindEvents == zoneLog'[1].op = "bindEvents"
          IN layerHooks' = layerHooks \cup
                { << layerId, kind >> : kind \in
                    { k \in LayerEventKinds :
                        bindEvents /\ Where(zoneLog', "observer", k) # {} } }
    /\ layerHooks' # layerHooks => lastOp' = "addLayer"

\* This step, when it is an engine event, emits it on the framework emitter
\* exactly when the emitter was observed at hooking time ('load': always).
DeliversWhatWasHooked ==
    /\ lastOp' = "mapEvent" =>
          LET kind == zoneLog'[1].op
          IN Emitted(zoneLog', kind, "map") <=> (kind = "load" \/ kind \in observedAtHook)
    /\ lastOp' = "layerEvent" =>
          LET fired == zoneLog'[1]
          IN Emitted(zoneLog', fired.op, fired.id)
                <=> << fired.id, fired.op >> \in layerHooks

Supplied(x, fallback) == IF x # Undefined THEN x ELSE fallback

\* C19: move passes the caller's zoom, center, bearing and pitch to the engine
\* whenever they are supplied (0 included) and the current value of the view
\* only when they are left out, whatever movingOptions holds under those keys;
\* setLayerZoomRange passes the caller's minZoom and maxZoom whenever they are
\* supplied (0 included) and 0 and 20 only when they are left out.
C19_SuppliedArgumentsArePassed ==
    [][ /\ lastOp' = "move" =>
              /\ lastCall'.passed["zoom"] = Supplied(lastCall'.zoom, camera.zoom)
              /\ lastCall'.passed["center"] = Supplied(lastCall'.center, camera.center)
              /\ lastCall'.passed["bearing"] = Supplied(lastCall'.bearing, camera.bearing)
              /\ lastCall'.passed["pitch"] = Supplied(lastCall'.pitch, camera.pitch)
        /\ lastOp' = "setLayerZoomRange" =>
              /\ lastCall'.passed.minzoom = Supplied(lastCall'.minZoom, DefaultMinZoom)
              /\ lastCall'.passed.maxzoom = Supplied(lastCall'.maxZoom, DefaultMaxZoom) ]_vars

====
